---- MODULE Spec2Model ----
(***************************************************************************)
(* Appeal AI backend: the two POST handlers /api/extract-fine and          *)
(* /api/appeal-check, in the two revisions kept in the repository          *)
(* (src/unnamed/part_000 and the server.js listing of src/server.js).      *)
(*                                                                         *)
(* A text is a sequence of tokens.  The tokens are the pieces of text the  *)
(* handlers tell apart: braces, commas, newlines, markdown fences, prose   *)
(* words, JSON keys (with their colon) and JSON scalar literals.           *)
(***************************************************************************)
EXTENDS Integers, Sequences, FiniteSets, TLC

\* ------------------------------------------------------------- bounds
\* Longest run of prose words the upstream puts before or after its answer.
MaxProse == 1

\* ------------------------------------------------------- JavaScript values
Undef == [ty |-> "undef", s |-> "", n |-> 0]
Null == [ty |-> "null", s |-> "", n |-> 0]
ObjVal == [ty |-> "obj", s |-> "", n |-> 0]
Str(x) == [ty |-> "str", s |-> x, n |-> 0]
Num(x) == [ty |-> "num", s |-> "", n |-> x]

\* JavaScript truthiness, as !x and x || d read it.
Truthy(v) ==
    \/ v.ty = "str" /\ v.s # ""
    \/ v.ty = "num" /\ v.n # 0
    \/ v.ty = "obj"

\* The mutant of OrDefault: the default is never substituted.
OrDefaultKeep(v, d) == v

\* v || d
OrDefault(v, d) == IF Truthy(v) THEN v ELSE d

AppealKeys == {"appeal_strength", "confidence_score", "reasoning_summary"}

ExtractKeysBase ==
    {"fineAmount", "infractionDate", "locationAddress", "carRegistration",
     "fineReferenceNumber"}

AllKeys == AppealKeys \cup ExtractKeysBase \cup {"allegedContravention", "other"}

\* An object: every key it does not own reads as undefined.
NoFields == [k \in AllKeys |-> Undef]

\* ------------------------------------------------------------- tokens
Tok(t, k, v) == [t |-> t, k |-> k, v |-> v]
LB == Tok("{", "", Undef)
RB == Tok("}", "", Undef)
Comma == Tok(",", "", Undef)
NL == Tok("nl", "", Undef)
FenceJson == Tok("fencejson", "", Undef)
Fence == Tok("fence", "", Undef)
Word == Tok("w", "", Undef)
Key(k) == Tok("key", k, Undef)
Lit(v) == Tok("lit", "", v)

\* ------------------------------------------------------------ JSON.parse
ParseFail == [ok |-> FALSE, val |-> Undef, fields |-> NoFields, next |-> 0]

RECURSIVE SkipWs(_, _)
SkipWs(t, i) ==
    IF i <= Len(t) /\ t[i].t = "nl" THEN SkipWs(t, i + 1) ELSE i

RECURSIVE ParseValue(_, _)
RECURSIVE ParseMembers(_, _, _)

\* One JSON value starting at token i: a scalar literal or an object.
ParseValue(t, i) ==
    IF i > Len(t) THEN ParseFail
    ELSE IF t[i].t = "lit"
    THEN [ok |-> TRUE, val |-> t[i].v, fields |-> NoFields, next |-> i + 1]
    ELSE IF t[i].t = "{"
    THEN LET j == SkipWs(t, i + 1) IN
         IF j <= Len(t) /\ t[j].t = "}"
         THEN [ok |-> TRUE, val |-> ObjVal, fields |-> NoFields, next |-> j + 1]
         ELSE ParseMembers(t, j, NoFields)
    ELSE ParseFail

\* The members of an object, token i being where a key is due.
ParseMembers(t, i, acc) ==
    IF i > Len(t) \/ t[i].t # "key" THEN ParseFail
    ELSE LET v == ParseValue(t, SkipWs(t, i + 1)) IN
         IF ~v.ok THEN ParseFail
         ELSE LET acc2 == [acc EXCEPT ![t[i].k] = v.val]
                  j == SkipWs(t, v.next)
              IN IF j > Len(t) THEN ParseFail
                 ELSE IF t[j].t = "}"
                 THEN [ok |-> TRUE, val |-> ObjVal, fields |-> acc2, next |-> j + 1]
                 ELSE IF t[j].t = ","
                 THEN ParseMembers(t, SkipWs(t, j + 1), acc2)
                 ELSE ParseFail

\* JSON.parse(text): the whole text is one value, whitespace around it
\* allowed; anything else is a SyntaxError (ok = FALSE).
JSONParse(t) ==
    LET r == ParseValue(t, SkipWs(t, 1)) IN
    IF r.ok /\ SkipWs(t, r.next) > Len(t) THEN r ELSE ParseFail

\* -------------------------------------------------------- text helpers
Braces(t, b) == {i \in 1..Len(t) : t[i].t = b}
Min(S) == CHOOSE x \in S : \A y \in S : x <= y
Max(S) == CHOOSE x \in S : \A y \in S : x >= y

\* The mutant of JsonMatch: a lazy match, the first '{' to the first '}'
\* after it.
JsonMatchLazy(t) ==
    LET opens == Braces(t, "{")
        closes == Braces(t, "}")
    IN IF \E i \in opens : \E j \in closes : i < j
       THEN LET a == Min(opens) IN
            [found |-> TRUE, text |-> SubSeq(t, a, Min({j \in closes : j > a}))]
       ELSE [found |-> FALSE, text |-> <<>>]

\* cleanResponse.match(/\{[\s\S]*\}/): the leftmost '{' that has a '}' after
\* it, up to the last '}' of the text.
JsonMatch(t) ==
    LET opens == Braces(t, "{")
        closes == Braces(t, "}")
    IN IF \E i \in opens : \E j \in closes : i < j
       THEN [found |-> TRUE, text |-> SubSeq(t, Min(opens), Max(closes))]
       ELSE [found |-> FALSE, text |-> <<>>]

RECURSIVE RemoveFence(_, _)
\* text.replace(/<fence>\n?/g, ''): every fence token goes, with one newline
\* that follows it.
RemoveFence(t, f) ==
    IF t = <<>> THEN <<>>
    ELSE IF Head(t).t = f
    THEN IF Len(t) >= 2 /\ t[2].t = "nl"
         THEN RemoveFence(SubSeq(t, 3, Len(t)), f)
         ELSE RemoveFence(Tail(t), f)
    ELSE <<Head(t)>> \o RemoveFence(Tail(t), f)

\* text.trim()
Trim(t) ==
    LET solid == {i \in 1..Len(t) : t[i].t # "nl"} IN
    IF solid = {} THEN <<>> ELSE SubSeq(t, Min(solid), Max(solid))

\* extractedText.replace(/FENCE json\n?/g, '').replace(/FENCE\n?/g, '').trim(),
\* FENCE being the three-backquote markdown fence.
StripFences(t) == Trim(RemoveFence(RemoveFence(t, "fencejson"), "fence"))

\* ------------------------------------------------- the upstream's texts
RECURSIVE Members(_, _)
\* The members of object o in key order ks, comma separated; a key whose
\* value is undefined is left out, as JSON.stringify leaves it out.
Members(o, ks) ==
    IF ks = <<>> THEN <<>>
    ELSE LET rest == Members(o, Tail(ks)) IN
         IF o[Head(ks)] = Undef THEN rest
         ELSE <<Key(Head(ks)), Lit(o[Head(ks)])>>
              \o (IF rest = <<>> THEN <<>> ELSE <<Comma>> \o rest)

\* The JSON text of object o.
Stringify(o, ks) == <<LB>> \o Members(o, ks) \o <<RB>>

AppealOrder == <<"appeal_strength", "confidence_score", "reasoning_summary">>

ExtractOrder ==
    <<"fineAmount", "infractionDate", "locationAddress", "carRegistration",
      "fineReferenceNumber", "allegedContravention">>

Assessment(s, c, m) ==
    [NoFields EXCEPT !["appeal_strength"] = s, !["confidence_score"] = c,
                     !["reasoning_summary"] = m]

\* The objects the upstream may answer an appeal check with: assessments,
\* valid or not, with any of the three keys missing.
AppealObjects ==
    {Assessment(s, c, m) :
        s \in {Undef, Str("strong"), Str("weak"), Str("bogus")},
        c \in {Undef, Num(0), Num(80), Num(150)},
        m \in {Undef, Str("Commonly accepted.")}}

\* A valid AppealAssessment: a strength of the enumeration, a score in
\* 0..100, a summary that is not empty.
ValidAssessment(o) ==
    /\ o["appeal_strength"] \in {Str("strong"), Str("medium"), Str("weak")}
    /\ o["confidence_score"].ty = "num"
    /\ o["confidence_score"].n \in 0..100
    /\ o["reasoning_summary"].ty = "str"
    /\ o["reasoning_summary"].s # ""

\* The objects the upstream sends with fences or prose around them: the
\* valid assessments and one that lacks a key.
WrappedAppealObjects ==
    {o \in AppealObjects : ValidAssessment(o)}
    \cup {Assessment(Str("strong"), Undef, Str("Commonly accepted."))}

Extracted(a, d, c) ==
    [NoFields EXCEPT !["fineAmount"] = a, !["infractionDate"] = d,
                     !["locationAddress"] = Str("Main St"),
                     !["carRegistration"] = c,
                     !["fineReferenceNumber"] = Str("EF99300708"),
                     !["allegedContravention"] = Str("52(m)")]

FullExtract == Extracted(Str("65.00"), Str("2024-01-01"), Str("CH15ANN"))

\* The objects the upstream may answer an extraction with: any of the keys
\* missing, null or zero.
ExtractObjects ==
    {Extracted(a, d, c) :
        a \in {Undef, Null, Str("65.00"), Num(0)},
        d \in {Undef, Str("2024-01-01")},
        c \in {Null, Str("CH15ANN")}}
    \cup {[FullExtract EXCEPT !["locationAddress"] = l,
                              !["fineReferenceNumber"] = x,
                              !["allegedContravention"] = y] :
             l \in {Undef, Str("Main St")},
             x \in {Undef, Str("EF99300708")},
             y \in {Undef, Str("52(m)")}}

\* The objects the upstream sends with fences or prose around them.
WrappedExtractObjects ==
    {FullExtract, Extracted(Undef, Str("2024-01-01"), Null)}

Prose(n) == [i \in 1..n |-> Word]

FenceKinds == {"none", "json", "bare"}

Fenced(f, b) ==
    CASE f = "none" -> b
      [] f = "json" -> <<FenceJson, NL>> \o b \o <<NL, Fence>>
      [] f = "bare" -> <<Fence, NL>> \o b \o <<NL, Fence>>

\* A body, fenced or not, with prose before and after it.
Wrapped(b) ==
    {Prose(p) \o Fenced(f, b) \o Prose(q) :
        p \in 0..MaxProse, q \in 0..MaxProse, f \in FenceKinds}

GoodAssessment == Assessment(Str("strong"), Num(80), Str("Commonly accepted."))

\* Texts that are not one JSON object: nothing, scalars, stray and
\* unbalanced braces, two objects, an object with braces in the prose
\* around it.
OddBodies(o, ks) ==
    {<<>>, <<Lit(Null)>>, <<Lit(Num(42))>>, <<Lit(Str("no"))>>,
     <<LB>>, <<RB, Word, LB>>, <<LB, Word, RB>>, <<LB, RB>>,
     <<LB, Key("other"), Lit(Num(1)), RB>>,
     Stringify(o, ks) \o <<Word>> \o Stringify(o, ks),
     <<Word>> \o Stringify(o, ks) \o <<Word>> \o Stringify(o, ks) \o <<Word>>,
     Stringify(o, ks) \o <<Word, RB>>,
     <<LB, Word, RB, Word>> \o Stringify(o, ks),
     <<LB, Key("other"), LB, Key("other"), Lit(Num(1)), RB, RB>>}

AppealTexts ==
    {Stringify(o, AppealOrder) : o \in AppealObjects}
    \cup UNION {Wrapped(Stringify(o, AppealOrder)) : o \in WrappedAppealObjects}
    \cup OddBodies(GoodAssessment, AppealOrder)
    \cup Wrapped(<<>>)

ExtractTexts ==
    {Stringify(o, ExtractOrder) : o \in ExtractObjects}
    \cup UNION {Wrapped(Stringify(o, ExtractOrder)) : o \in WrappedExtractObjects}
    \cup OddBodies(FullExtract, ExtractOrder)
    \cup Wrapped(<<>>)

\* What a rejected upstream call carries as its message.
UpstreamErrors == {"Connection error.", "401 Incorrect API key", "429 Rate limit"}

\* ------------------------------------------------------------ the state
Requests == {"r1", "r2"}

\* The two revisions of the server kept in the repository.
Revisions == {"part_000", "server_js"}

VARIABLES
    rev,      \* the revision that is running
    nodeEnv,  \* process.env.NODE_ENV
    pc,       \* per request: "idle", "awaiting" (the upstream call), "done"
    route,    \* per request: "none", "appeal", "extract"
    body,     \* per request: what the client sent
    prompt,   \* per request: the prompt built for the upstream call
    calls,    \* per request: how many upstream calls its handler has issued
    reply,    \* per request: what the upstream call settled with
    cand,     \* per request: the text handed to JSON.parse
    sent      \* per request: the responses sent, in order

vars == <<rev, nodeEnv, pc, route, body, prompt, calls, reply, cand, sent>>

\* The keys createAppealPrompt reads from fineDetails and from a structured
\* appealReason.
FineKeys ==
    {"contravention_code", "location", "date", "time", "amount", "reason",
     "description", "type"}
ReasonKeys == {"category", "selected_reason", "reason", "user_note", "personal_note"}

NoFine == [k \in FineKeys |-> Undef]
NoReason == [k \in ReasonKeys |-> Undef]

\* A request: fineDetails and appealReason as JavaScript values, fd and ar
\* the properties they hold when they are objects; files, data and size
\* describe req.files of a multipart form.
NoBody ==
    [fineDetails |-> Undef, appealReason |-> Undef, fd |-> NoFine, ar |-> NoReason,
     files |-> "none", data |-> "undef", size |-> 0]

\* The display strings createAppealPrompt embeds in the prompt text.
PromptKeys ==
    {"contraventionCode", "location", "date", "amount", "reason", "category",
     "selectedReason", "additionalDetails"}
NoPrompt == [set |-> FALSE, f |-> [k \in PromptKeys |-> Undef]]
NoReply == [kind |-> "none", text |-> <<>>, msg |-> ""]
NoCand == [set |-> FALSE, text |-> <<>>]

\* ---------------------------------------------------------- responses
Response(status, kind, obj, error, details) ==
    [status |-> status, kind |-> kind, obj |-> obj, error |-> error,
     details |-> details]

\* res.status(400).json({ error })
BadRequest(error) == Response(400, "error", NoFields, error, "")

\* res.status(500).json({ error, details: error.message })
ServerError(error, message) == Response(500, "error", NoFields, error, message)

\* res.json(appealAnalysis)
AssessmentOk(obj) == Response(200, "assessment", obj, "", "")

\* res.json({ success: true, data })
ExtractOk(data) == Response(200, "success", data, "", "")

SyntaxErrorMsg == "SyntaxError: Unexpected token"
TypeErrorMsg == "TypeError: Cannot read properties"
AppealFailed == "Failed to analyze appeal chances"
ExtractFailed == "Failed to extract fine data"

\* The fallback of part_000 when JSON.parse throws.
FallbackParse ==
    Assessment(Str("medium"), Num(50),
               Str("Unable to parse specific analysis, but medical emergencies usually constitute strong grounds for appeal."))

\* The fallback of part_000 when a required key is missing or falsy.
FallbackStructure ==
    Assessment(Str("medium"), Num(50), Str("Response structure incomplete. Please review evidence."))

\* The fallback of the server.js revision when JSON.parse throws.
FallbackAnalyze ==
    Assessment(Str("medium"), Num(50),
               Str("Unable to analyze the appeal details properly. Please review your appeal reason and try again."))

\* !a.appeal_strength || !a.confidence_score || !a.reasoning_summary
Incomplete(a) == \E k \in AppealKeys : ~Truthy(a[k])

\* /api/appeal-check of part_000 from the settled upstream call to the
\* response: brace match, JSON.parse, structure validation.
RecoverAppeal000(text) ==
    LET m == JsonMatch(text)
        p == JSONParse(m.text)
        parsed == IF p.ok THEN p.fields ELSE FallbackParse
    IN IF ~m.found
       THEN [cand |-> NoCand,
             resp |-> ServerError(AppealFailed, "AI response format was invalid")]
       ELSE [cand |-> [set |-> TRUE, text |-> m.text],
             resp |-> AssessmentOk(IF Incomplete(parsed) THEN FallbackStructure
                                   ELSE parsed)]

\* /api/appeal-check of the server.js revision from the settled upstream
\* call to the response: JSON.parse of the raw text, structure validation
\* that throws.
RecoverAppealJs(text) ==
    LET p == JSONParse(text)
        parsed == IF p.ok THEN p.fields ELSE FallbackAnalyze
        resp == IF p.ok /\ p.val.ty = "null"
                THEN ServerError(AppealFailed, TypeErrorMsg)
                ELSE IF Incomplete(parsed)
                THEN ServerError(AppealFailed, "Invalid response structure from AI")
                ELSE AssessmentOk(parsed)
    IN [cand |-> [set |-> TRUE, text |-> text], resp |-> resp]

\* The keys of data in the success response of /api/extract-fine.
DataKeys(r) ==
    IF r = "server_js" THEN ExtractKeysBase \cup {"allegedContravention"}
    ELSE ExtractKeysBase

\* The mutant of RecoverExtract: a text that does not parse yields a
\* success response with every field empty.
RecoverExtractLenient(r, text) ==
    LET cleaned == StripFences(text)
        p == JSONParse(cleaned)
    IN [cand |-> [set |-> TRUE, text |-> cleaned],
        resp |-> IF p.ok /\ p.val.ty = "null"
                 THEN ServerError(ExtractFailed, TypeErrorMsg)
                 ELSE ExtractOk([k \in AllKeys |->
                        IF k \in DataKeys(r) THEN OrDefault(p.fields[k], Str(""))
                        ELSE Undef])]

\* /api/extract-fine from the settled upstream call to the response: fence
\* stripping, JSON.parse, per-key defaults.
RecoverExtract(r, text) ==
    LET cleaned == StripFences(text)
        p == JSONParse(cleaned)
    IN [cand |-> [set |-> TRUE, text |-> cleaned],
        resp |-> IF ~p.ok THEN ServerError(ExtractFailed, SyntaxErrorMsg)
                 ELSE IF p.val.ty = "null"
                 THEN ServerError(ExtractFailed, TypeErrorMsg)
                 ELSE ExtractOk([k \in AllKeys |->
                        IF k \in DataKeys(r) THEN OrDefault(p.fields[k], Str(""))
                        ELSE Undef])]

\* ------------------------------------------- the handlers up to the await
Call == [call |-> TRUE, resp |-> BadRequest("")]
Respond(resp) == [call |-> FALSE, resp |-> resp]

\* The mutant of Issue: the call is made again when it fails.
IssueWithRetry(n) == n + 2

\* openai.chat.completions.create is called once, and awaited.
Issue(n) == n + 1

\* The mutant of AppealStart: the request fields are not validated.
AppealStartUnchecked(b) == Call

\* /api/appeal-check up to the upstream call: 400 when fineDetails or
\* appealReason is falsy, else the prompt is built and the call is issued.
AppealStart(b) ==
    IF ~Truthy(b.fineDetails) \/ ~Truthy(b.appealReason)
    THEN Respond(BadRequest(
            "Missing required fields: fineDetails and appealReason are required"))
    ELSE Call

\* imageBuffer.toString('base64').length
Base64Length(n) == 4 * ((n + 2) \div 3)

\* /api/extract-fine up to the upstream call.  The buffer's length is
\* logged before the buffer is tested, so an image entry without a data
\* buffer (req.files.image is an array when the form has two image parts)
\* throws a TypeError into the handler's catch.
ExtractStart(b) ==
    IF b.files \notin {"image", "images"}
    THEN Respond(BadRequest("No image file provided"))
    ELSE IF b.data = "undef"
    THEN Respond(ServerError(ExtractFailed, TypeErrorMsg))
    ELSE IF b.size = 0
    THEN Respond(BadRequest("Image file is empty"))
    ELSE IF Base64Length(b.size) = 0
    THEN Respond(BadRequest("Failed to process image"))
    ELSE Call

\* The mutant of Caught: the catch block answers with a fallback.
CaughtFallback(rt, message) ==
    IF rt = "appeal" THEN AssessmentOk(FallbackParse)
    ELSE ExtractOk([k \in AllKeys |-> IF k \in ExtractKeysBase THEN Str("") ELSE Undef])

\* The catch block of a handler, entered with the rejection of the
\* upstream call.
Caught(rt, message) ==
    ServerError(IF rt = "appeal" THEN AppealFailed ELSE ExtractFailed, message)

\* The error-handling middleware: the message of the error is sent only
\* when NODE_ENV is 'development'.
ErrorMiddleware(env, message) ==
    Response(500, "error", NoFields, "Internal server error",
             IF env = "development" THEN message ELSE "Something went wrong")

\* ----------------------------------------------------- createAppealPrompt
\* A template literal's interpolation of a value: String(v).
Interpolate(v) ==
    IF v.ty = "undef" THEN Str("undefined")
    ELSE IF v.ty = "null" THEN Str("null")
    ELSE IF v.ty = "obj" THEN Str("[object Object]")
    ELSE v

\* The properties of fineDetails and of appealReason as the function reads
\* them: every property of a value that is not an object is undefined.
FineOf(b) == IF b.fineDetails.ty = "obj" THEN b.fd ELSE NoFine
ReasonOf(b) == IF b.appealReason.ty = "obj" THEN b.ar ELSE NoReason

\* createAppealPrompt of part_000: the fine's fields are looked up under
\* their synonym keys, appealReason is read as a string or as an object,
\* and every field that resolves to nothing gets a placeholder.
CreateAppealPrompt000(b) ==
    LET fd == FineOf(b)
        ar == ReasonOf(b)
        isStr == b.appealReason.ty = "str"
        isObj == b.appealReason.ty = "obj"
    IN  [set |-> TRUE,
         f |-> [k \in PromptKeys |-> Interpolate(
            CASE k = "contraventionCode" ->
                    OrDefault(fd["contravention_code"], Str("Not specified"))
              [] k = "location" -> OrDefault(fd["location"], Str("Unknown"))
              [] k = "date" ->
                    OrDefault(fd["date"], OrDefault(fd["time"], Str("Unknown")))
              [] k = "amount" -> OrDefault(fd["amount"], Str("Unknown"))
              [] k = "reason" ->
                    OrDefault(fd["reason"], OrDefault(fd["description"],
                        OrDefault(fd["type"], Str("Unknown"))))
              [] k = "category" ->
                    IF isObj THEN OrDefault(ar["category"], Str("General"))
                    ELSE Str("General")
              [] k = "selectedReason" ->
                    IF isStr THEN b.appealReason
                    ELSE IF isObj
                    THEN OrDefault(ar["selected_reason"],
                            OrDefault(ar["reason"], Str("Unknown")))
                    ELSE Str("Unknown")
              [] k = "additionalDetails" ->
                    IF isObj
                    THEN OrDefault(ar["user_note"],
                            OrDefault(ar["personal_note"], Str("None provided")))
                    ELSE Str("None provided"))]]

\* createAppealPrompt of server.js: the properties are interpolated as they
\* are; only the user's note has a default.
CreateAppealPromptJs(b) ==
    LET fd == FineOf(b)
        ar == ReasonOf(b)
    IN  [set |-> TRUE,
         f |-> [k \in PromptKeys |-> Interpolate(
            CASE k = "contraventionCode" -> fd["contravention_code"]
              [] k = "location" -> fd["location"]
              [] k = "date" -> fd["date"]
              [] k = "amount" -> fd["amount"]
              [] k = "reason" -> fd["reason"]
              [] k = "category" -> ar["category"]
              [] k = "selectedReason" -> ar["selected_reason"]
              [] k = "additionalDetails" ->
                    OrDefault(ar["user_note"], Str("None provided")))]]

CreateAppealPrompt(rv, b) ==
    IF rv = "part_000" THEN CreateAppealPrompt000(b) ELSE CreateAppealPromptJs(b)

\* The messages of the extraction call: a fixed instruction and the image
\* as a data URL; nothing of the request is normalised.
ExtractPrompt == [NoPrompt EXCEPT !.set = TRUE]

\* The fine of a typical request, and the values a request may hold under
\* each key.
FineExample ==
    [contravention_code |-> "12", location |-> "Main St", date |-> "2024-03-01",
     time |-> "10:30", amount |-> "60", reason |-> "No permit",
     description |-> "Parked in a permit bay", type |-> "Parking"]
ReasonExample ==
    [category |-> "X", selected_reason |-> "PCN Wrongly / Unfairly Issued",
     reason |-> "Y", user_note |-> "I was at the hospital",
     personal_note |-> "See the attached letter"]

FineWith(S) == [k \in FineKeys |-> IF k \in S THEN Str(FineExample[k]) ELSE Undef]
ReasonWith(S) ==
    [k \in ReasonKeys |-> IF k \in S THEN Str(ReasonExample[k]) ELSE Undef]

\* The request bodies a client may post to /api/appeal-check.
AppealBodies ==
    {[NoBody EXCEPT !.fineDetails = fd, !.appealReason = ar,
                    !.fd = IF fd = ObjVal
                           THEN FineWith({"contravention_code", "location", "date",
                                          "amount", "reason"})
                           ELSE NoFine] :
        fd \in {Undef, ObjVal},
        ar \in {Undef, Str(""), Str("Medical emergency")}}

\* The bodies that pass the validation, with every choice of the keys
\* present in fineDetails, and appealReason a string or an object with
\* every choice of its keys.
PromptBodies ==
    {[NoBody EXCEPT !.fineDetails = ObjVal, !.fd = FineWith(S),
                    !.appealReason = Str("Medical emergency")] :
        S \in SUBSET FineKeys}
    \cup {[NoBody EXCEPT !.fineDetails = ObjVal, !.fd = FineWith(S),
                         !.appealReason = ObjVal, !.ar = ReasonWith(T)] :
            S \in SUBSET FineKeys, T \in SUBSET ReasonKeys}

\* The multipart forms a client may post to /api/extract-fine: no files, no
\* image field, one image (empty or not), two image parts.
ExtractBodies ==
    {[NoBody EXCEPT !.files = "none"], [NoBody EXCEPT !.files = "other"],
     [NoBody EXCEPT !.files = "images"]}
    \cup {[NoBody EXCEPT !.files = "image", !.data = "buffer", !.size = n] :
            n \in {0, 3}}

\* -------------------------------------------------------------- actions
Init ==
    /\ rev \in Revisions
    /\ nodeEnv \in {"development", "production"}
    /\ pc = [r \in Requests |-> "idle"]
    /\ route = [r \in Requests |-> "none"]
    /\ body = [r \in Requests |-> NoBody]
    /\ prompt = [r \in Requests |-> NoPrompt]
    /\ calls = [r \in Requests |-> 0]
    /\ reply = [r \in Requests |-> NoReply]
    /\ cand = [r \in Requests |-> NoCand]
    /\ sent = [r \in Requests |-> <<>>]

\* The mutant of Arrive: the call is issued but not awaited, and the handler
\* goes on with the pending promise, whose choices are undefined.
ArriveNoAwait(r, rt, b, start) ==
    /\ route' = [route EXCEPT ![r] = rt]
    /\ body' = [body EXCEPT ![r] = b]
    /\ IF start.call
       THEN /\ prompt' = [prompt EXCEPT ![r] =
                            IF rt = "appeal" THEN CreateAppealPrompt(rev, b)
                            ELSE ExtractPrompt]
            /\ calls' = [calls EXCEPT ![r] = Issue(@)]
            /\ pc' = [pc EXCEPT ![r] = "awaiting"]
            /\ sent' = [sent EXCEPT ![r] = Append(@, Caught(rt, TypeErrorMsg))]
       ELSE /\ prompt' = prompt
            /\ calls' = calls
            /\ pc' = [pc EXCEPT ![r] = "done"]
            /\ sent' = [sent EXCEPT ![r] = Append(@, start.resp)]
    /\ UNCHANGED <<rev, nodeEnv, reply, cand>>

\* The mutant of Arrive: the early response is sent without a return, and
\* the handler goes on to the upstream call.
ArriveNoReturn(r, rt, b, start) ==
    /\ route' = [route EXCEPT ![r] = rt]
    /\ body' = [body EXCEPT ![r] = b]
    /\ prompt' = [prompt EXCEPT ![r] =
                    IF rt = "appeal" THEN CreateAppealPrompt(rev, b)
                    ELSE ExtractPrompt]
    /\ calls' = [calls EXCEPT ![r] = Issue(@)]
    /\ pc' = [pc EXCEPT ![r] = "awaiting"]
    /\ sent' = IF start.call THEN sent
               ELSE [sent EXCEPT ![r] = Append(@, start.resp)]
    /\ UNCHANGED <<rev, nodeEnv, reply, cand>>

\* A request arrives and its handler runs to its first await or response.
Arrive(r, rt, b, start) ==
    /\ route' = [route EXCEPT ![r] = rt]
    /\ body' = [body EXCEPT ![r] = b]
    /\ IF start.call
       THEN /\ prompt' = [prompt EXCEPT ![r] =
                            IF rt = "appeal" THEN CreateAppealPrompt(rev, b)
                            ELSE ExtractPrompt]
            /\ calls' = [calls EXCEPT ![r] = Issue(@)]
            /\ pc' = [pc EXCEPT ![r] = "awaiting"]
            /\ sent' = sent
       ELSE /\ prompt' = prompt
            /\ calls' = calls
            /\ pc' = [pc EXCEPT ![r] = "done"]
            /\ sent' = [sent EXCEPT ![r] = Append(@, start.resp)]
    /\ UNCHANGED <<rev, nodeEnv, reply, cand>>

AppealCheckRequest(r) ==
    /\ pc[r] = "idle"
    /\ \E b \in AppealBodies : Arrive(r, "appeal", b, AppealStart(b))

ExtractFineRequest(r) ==
    /\ pc[r] = "idle"
    /\ \E b \in ExtractBodies : Arrive(r, "extract", b, ExtractStart(b))

\* The mutant of Resume: the candidate text is kept in a variable of the
\* module, which all requests share.
ResumeShared(r, text, out) ==
    /\ reply' = [reply EXCEPT ![r] = [kind |-> "text", text |-> text, msg |-> ""]]
    /\ cand' = [q \in Requests |-> out.cand]
    /\ sent' = [sent EXCEPT ![r] = Append(@, out.resp)]
    /\ pc' = [pc EXCEPT ![r] = "done"]
    /\ UNCHANGED <<rev, nodeEnv, route, body, prompt, calls>>

\* The upstream call resolves with a text and the handler runs to its
\* response.
Resume(r, text, out) ==
    /\ reply' = [reply EXCEPT ![r] = [kind |-> "text", text |-> text, msg |-> ""]]
    /\ cand' = [cand EXCEPT ![r] = out.cand]
    /\ sent' = [sent EXCEPT ![r] = Append(@, out.resp)]
    /\ pc' = [pc EXCEPT ![r] = "done"]
    /\ UNCHANGED <<rev, nodeEnv, route, body, prompt, calls>>

AppealCheckResume(r) ==
    /\ pc[r] = "awaiting"
    /\ route[r] = "appeal"
    /\ \E text \in AppealTexts :
          Resume(r, text, IF rev = "part_000" THEN RecoverAppeal000(text)
                          ELSE RecoverAppealJs(text))

ExtractFineResume(r) ==
    /\ pc[r] = "awaiting"
    /\ route[r] = "extract"
    /\ \E text \in ExtractTexts : Resume(r, text, RecoverExtract(rev, text))

\* The upstream call rejects and the handler's catch block runs.
UpstreamReject(r) ==
    /\ pc[r] = "awaiting"
    /\ \E message \in UpstreamErrors :
          /\ reply' = [reply EXCEPT ![r] =
                          [kind |-> "error", text |-> <<>>, msg |-> message]]
          /\ sent' = [sent EXCEPT ![r] = Append(@, Caught(route[r], message))]
    /\ pc' = [pc EXCEPT ![r] = "done"]
    /\ UNCHANGED <<rev, nodeEnv, route, body, prompt, calls, cand>>

\* A request whose JSON body does not parse: express.json() passes the
\* error on, no route handler runs, and the error-handling middleware
\* answers.
MalformedBodyRequest(r) ==
    /\ pc[r] = "idle"
    /\ route' = [route EXCEPT ![r] = "middleware"]
    /\ sent' = [sent EXCEPT ![r] = Append(@, ErrorMiddleware(nodeEnv, SyntaxErrorMsg))]
    /\ pc' = [pc EXCEPT ![r] = "done"]
    /\ UNCHANGED <<rev, nodeEnv, body, prompt, calls, reply, cand>>

Next ==
    \E r \in Requests :
        \/ AppealCheckRequest(r)
        \/ ExtractFineRequest(r)
        \/ AppealCheckResume(r)
        \/ ExtractFineResume(r)
        \/ UpstreamReject(r)
        \/ MalformedBodyRequest(r)

Spec == Init /\ [][Next]_vars

\* createAppealPrompt on its own: one request, its body drawn from
\* PromptBodies, run up to the upstream call.
PromptRequest(r) ==
    /\ pc[r] = "idle"
    /\ r = "r1"
    /\ \E b \in PromptBodies : Arrive(r, "appeal", b, AppealStart(b))

NextPrompt == \E r \in Requests : PromptRequest(r)

SpecPrompt == Init /\ [][NextPrompt]_vars

\* ------------------------------------------------------------ properties
Appeal(r) == route[r] = "appeal"
Extract(r) == route[r] = "extract"
Answered(r) == pc[r] = "done" /\ Len(sent[r]) >= 1
GotText(r) == reply[r].kind = "text"
Resp(r) == sent[r][1]

\* The text has a '{' with a '}' somewhere after it.
HasBraceSpan(t) ==
    \E i \in 1..Len(t) : \E j \in 1..Len(t) : i < j /\ t[i] = LB /\ t[j] = RB

MediumFifty(o) ==
    o["appeal_strength"] = Str("medium") /\ o["confidence_score"] = Num(50)

ValidAppealObjects == {o \in AppealObjects : ValidAssessment(o)}

\* C1: when the upstream text is the JSON text of a valid assessment a
\* (strength of the enumeration, score in 0..100, non-empty summary), bare,
\* fenced or with prose around it, /api/appeal-check responds 200 with an
\* object equal to a.
C1_RoundTrip ==
    \A r \in Requests :
        Appeal(r) /\ Answered(r) /\ GotText(r) =>
            \A a \in ValidAppealObjects :
                reply[r].text \in Wrapped(Stringify(a, AppealOrder)) =>
                    sent[r] = <<AssessmentOk(a)>>

\* C2: whatever text the upstream call returns, /api/appeal-check with both
\* required fields present responds 200, with the parsed assessment or a
\* fallback object, and never 500.
C2_NeverRaises ==
    \A r \in Requests :
        Appeal(r) /\ Answered(r) /\ GotText(r) =>
            /\ Resp(r).status = 200
            /\ Resp(r).kind = "assessment"

\* C3: for an upstream text with no '{' followed later by a '}', the
\* appeal-assessment path returns exactly the fallback object: strength
\* "medium", score 50 and one fixed summary.
C3_NoBracesFallback ==
    \A r \in Requests :
        Appeal(r) /\ Answered(r) /\ GotText(r) /\ ~HasBraceSpan(reply[r].text) =>
            /\ Resp(r).status = 200
            /\ MediumFifty(Resp(r).obj)
            /\ Resp(r).obj["reasoning_summary"] \in
                  {FallbackParse["reasoning_summary"],
                   FallbackAnalyze["reasoning_summary"]}

\* The text handed to JSON.parse parses to an object that lacks a required
\* key.
ParsedLacksKey(r) ==
    LET p == JSONParse(cand[r].text) IN
    /\ cand[r].set
    /\ p.ok
    /\ p.val.ty = "obj"
    /\ \E k \in AppealKeys : p.fields[k] = Undef

\* C4: when the upstream text parses to an object that lacks a required
\* key, the appeal-assessment path answers 200 with the fallback object
\* (strength "medium", score 50); no error response is sent.
C4_MissingKeyFallback ==
    \A r \in Requests :
        Appeal(r) /\ Answered(r) /\ GotText(r) /\ ParsedLacksKey(r) =>
            /\ Resp(r).status = 200
            /\ MediumFifty(Resp(r).obj)

\* C5: in part_000 the text handed to JSON.parse is the span of the
\* upstream text from its first '{' to its last '}', both included, however
\* many brace pairs lie between them; it is handed over exactly when the
\* text has a '{' with a '}' after it.
C5_GreedySpan ==
    \A r \in Requests :
        rev = "part_000" /\ Appeal(r) /\ Answered(r) /\ GotText(r) =>
            LET t == reply[r].text IN
            /\ cand[r].set = HasBraceSpan(t)
            /\ cand[r].set =>
                  \E i \in 1..Len(t) : \E j \in i..Len(t) :
                      /\ t[i] = LB
                      /\ \A h \in 1..(i - 1) : t[h] # LB
                      /\ t[j] = RB
                      /\ \A h \in (j + 1)..Len(t) : t[h] # RB
                      /\ cand[r].text = SubSeq(t, i, j)

\* C5 witness: part_000 answered a text made of prose, an object, prose,
\* a second object and prose, and the candidate holds both objects.
C5_Witness ==
    \E r \in Requests :
        /\ rev = "part_000" /\ Appeal(r) /\ Answered(r) /\ GotText(r)
        /\ cand[r].set
        /\ Cardinality(Braces(reply[r].text, "{")) >= 2
        /\ Cardinality(Braces(cand[r].text, "}")) >= 2
        /\ Head(reply[r].text) = Word
        /\ Len(cand[r].text) < Len(reply[r].text)

\* The request body lacks fineDetails or appealReason.
LacksField(b) == b.fineDetails = Undef \/ b.appealReason = Undef

\* C6: /api/appeal-check with fineDetails or appealReason missing responds
\* 400 with an error message and never calls the upstream.
C6_MissingField400 ==
    \A r \in Requests :
        Appeal(r) /\ LacksField(body[r]) =>
            /\ pc[r] = "done"
            /\ calls[r] = 0
            /\ reply[r] = NoReply
            /\ Len(sent[r]) = 1
            /\ Resp(r).status = 400
            /\ Resp(r).error # ""

\* C6 witness: a request with appealReason present and fineDetails missing
\* has been answered.
C6_Witness ==
    \E r \in Requests :
        /\ Appeal(r) /\ Answered(r)
        /\ body[r].fineDetails = Undef
        /\ body[r].appealReason # Undef

\* The form has no usable image: no files, no image field, or an image
\* entry whose data buffer is missing or empty.
NoUsableImage(b) ==
    \/ b.files \in {"none", "other"}
    \/ b.data = "undef"
    \/ b.size = 0

\* C7: /api/extract-fine with no usable image responds 400 with an error
\* message and never calls the upstream.
C7_NoImage400 ==
    \A r \in Requests :
        Extract(r) /\ NoUsableImage(body[r]) =>
            /\ pc[r] = "done"
            /\ calls[r] = 0
            /\ Len(sent[r]) = 1
            /\ Resp(r).status = 400
            /\ Resp(r).error # ""

\* C8: every success response of /api/extract-fine carries success:true and
\* a data object with the five keys; a key missing, null or otherwise falsy
\* in the parsed object is the empty string, any other value is passed on,
\* so no value of data is null or undefined; and a text that parses to an
\* object is answered with success whatever keys it lacks.
C8_ExtractDefaults ==
    \A r \in Requests :
        Extract(r) /\ Answered(r) /\ GotText(r) =>
            LET p == JSONParse(cand[r].text) IN
            /\ Resp(r).status = 200 =>
                  /\ Resp(r).kind = "success"
                  /\ \A k \in ExtractKeysBase :
                        /\ Resp(r).obj[k] \notin {Undef, Null}
                        /\ p.fields[k] \in {Undef, Null} => Resp(r).obj[k] = Str("")
                        /\ p.fields[k].ty = "str" => Resp(r).obj[k] = p.fields[k]
            /\ p.ok /\ p.val.ty = "obj" => Resp(r).status = 200

\* C8 witness: a success response for an object that lacks one key, holds
\* null for another and holds a third.
C8_Witness ==
    \E r \in Requests :
        /\ Extract(r) /\ Answered(r) /\ GotText(r)
        /\ Resp(r).status = 200
        /\ JSONParse(cand[r].text).fields["fineAmount"] = Undef
        /\ JSONParse(cand[r].text).fields["carRegistration"] = Null
        /\ JSONParse(cand[r].text).fields["infractionDate"] # Undef
        /\ Resp(r).obj["fineAmount"] = Str("")

\* C9: in /api/extract-fine, when the fence-stripped upstream text does not
\* parse as JSON, the response is a 500 with an error and a details field,
\* never a success response.
C9_ParseFailure500 ==
    \A r \in Requests :
        Extract(r) /\ Answered(r) /\ GotText(r) /\ ~JSONParse(cand[r].text).ok =>
            /\ cand[r].set
            /\ Len(sent[r]) = 1
            /\ Resp(r).status = 500
            /\ Resp(r).kind = "error"
            /\ Resp(r).error # ""
            /\ Resp(r).details # ""

\* C9 witness: an extraction was answered whose upstream text holds an
\* object with prose around it, which does not parse.
C9_Witness ==
    \E r \in Requests :
        /\ Extract(r) /\ Answered(r) /\ GotText(r)
        /\ ~JSONParse(cand[r].text).ok
        /\ HasBraceSpan(reply[r].text)

\* C10: when the upstream call rejects, either route responds 500 with an
\* error and with the rejection's message as details; nothing else is sent.
C10_UpstreamFailure500 ==
    \A r \in Requests :
        reply[r].kind = "error" =>
            /\ pc[r] = "done"
            /\ Len(sent[r]) = 1
            /\ Resp(r).status = 500
            /\ Resp(r).kind = "error"
            /\ Resp(r).error # ""
            /\ Resp(r).details = reply[r].msg
            /\ reply[r].msg \in UpstreamErrors

\* C10 witness: an appeal check and an extraction have both been answered
\* after their upstream calls rejected.
C10_Witness ==
    \E r \in Requests : \E q \in Requests :
        /\ Appeal(r) /\ reply[r].kind = "error" /\ Answered(r)
        /\ Extract(q) /\ reply[q].kind = "error" /\ Answered(q)

\* The upstream call of the request has settled, with a text or an error.
Settled(r) == reply[r].kind \in {"text", "error"}

\* C11: within the handling of one request the upstream provider is called
\* at most once, whatever the outcome: no call before the request arrives,
\* one call while it waits, and still one after the call was rejected, its
\* text did not parse or its object lacked a key.
C11_NoRetry ==
    \A r \in Requests :
        /\ calls[r] <= 1
        /\ pc[r] = "awaiting" => calls[r] = 1
        /\ Settled(r) => pc[r] = "done" /\ calls[r] = 1

\* A request answered after its upstream call failed, and one answered 500
\* after a text that did not parse: each made one call.
C11_Witness ==
    /\ reply["r1"].kind = "error" /\ Answered("r1") /\ calls["r1"] = 1
    /\ GotText("r2") /\ Answered("r2") /\ Resp("r2").status = 500
    /\ calls["r2"] = 1

\* The details an error payload may carry without disclosing the message of
\* the internal error: none, or the generic text of the error middleware.
GenericDetails == {"", "Something went wrong"}

\* C12: when NODE_ENV is not 'development', no error payload of any route
\* carries the message of the internal error.
C12_ProductionHidesMessage ==
    nodeEnv # "development" =>
        \A r \in Requests :
            Answered(r) /\ Resp(r).status >= 400 =>
                Resp(r).details \in GenericDetails

StrengthEnum == {Str("strong"), Str("medium"), Str("weak")}

\* C13: in every 200 response of /api/appeal-check, appeal_strength is one
\* of strong, medium, weak, whatever the upstream call returned.
C13_StrengthEnum ==
    \A r \in Requests :
        Appeal(r) /\ Answered(r) /\ Resp(r).status = 200 =>
            Resp(r).obj["appeal_strength"] \in StrengthEnum

\* The value of the first key of ks that the mapping m holds, else d.
RECURSIVE FirstPresent(_, _, _)
FirstPresent(m, ks, d) ==
    IF ks = <<>> THEN d
    ELSE IF m[Head(ks)] # Undef THEN m[Head(ks)]
    ELSE FirstPresent(m, Tail(ks), d)

\* The request has passed the validation and its prompt is built.
Prompted(r) == Appeal(r) /\ prompt[r].set

\* C14: for an appealReason that is a plain string, the prompt carries the
\* category General, the string itself as the selected reason, and None
\* provided as the additional details.
C14_StringShape ==
    \A r \in Requests :
        Prompted(r) /\ body[r].appealReason.ty = "str" =>
            /\ prompt[r].f["category"] = Str("General")
            /\ prompt[r].f["selectedReason"] = body[r].appealReason
            /\ prompt[r].f["additionalDetails"] = Str("None provided")

\* C15: for an appealReason that is an object, the selected reason is its
\* selected_reason, else its reason, else a placeholder; the additional
\* details are its user_note, else its personal_note, else None provided;
\* the category is its category, else General; each default applies on its
\* own, so that {category: X, reason: Y} gives the selected reason Y.
C15_ObjectShape ==
    \A r \in Requests :
        Prompted(r) /\ body[r].appealReason.ty = "obj" =>
            /\ prompt[r].f["selectedReason"] =
                  FirstPresent(body[r].ar, <<"selected_reason", "reason">>, Str("Unknown"))
            /\ prompt[r].f["additionalDetails"] =
                  FirstPresent(body[r].ar, <<"user_note", "personal_note">>,
                               Str("None provided"))
            /\ prompt[r].f["category"] =
                  FirstPresent(body[r].ar, <<"category">>, Str("General"))

\* C16: every field of the fine in the prompt is the value found under its
\* keys tried in order (date then time; reason then description then type),
\* else the placeholder Unknown, so that no missing value is embedded, the
\* empty fineDetails included.
C16_FineDefaults ==
    \A r \in Requests :
        Prompted(r) =>
            LET fd == body[r].fd
                f == prompt[r].f
            IN  /\ f["contraventionCode"] =
                      FirstPresent(fd, <<"contravention_code">>, Str("Unknown"))
                /\ f["location"] = FirstPresent(fd, <<"location">>, Str("Unknown"))
                /\ f["date"] = FirstPresent(fd, <<"date", "time">>, Str("Unknown"))
                /\ f["amount"] = FirstPresent(fd, <<"amount">>, Str("Unknown"))
                /\ f["reason"] =
                      FirstPresent(fd, <<"reason", "description", "type">>,
                                   Str("Unknown"))

\* Every required key of the object is present, and neither null nor the
\* empty string.
AllPresent(o) == \A k \in AppealKeys : o[k] \notin {Undef, Null, Str("")}

\* C17: the structure validation accepts the parsed object exactly when its
\* three keys are present and neither null nor empty; confidence_score is
\* not range-checked, so an object with any integer score, 0 and 100
\* included, is the body of the 200 unchanged.
C17_PresenceOnly ==
    \A r \in Requests :
        Appeal(r) /\ Answered(r) /\ GotText(r) =>
            \A o \in AppealObjects :
                reply[r].text = Stringify(o, AppealOrder) =>
                    (AllPresent(o) <=> sent[r] = <<AssessmentOk(o)>>)

\* The fence-stripped text is not one JSON value, but its span from the
\* first '{' to the last '}' is one JSON object.
ObjectInProse(t) ==
    LET cleaned == StripFences(t)
        m == JsonMatch(cleaned)
    IN  /\ ~JSONParse(cleaned).ok
        /\ m.found
        /\ JSONParse(m.text).ok

\* C18: when the fence-stripped upstream text of /api/extract-fine does not
\* parse but holds a JSON object with prose before or after it, the span
\* from the first '{' to the last '}' is parsed and the response is the
\* success with the fields of that object.
C18_ExtractBraceScan ==
    \A r \in Requests :
        Extract(r) /\ Answered(r) /\ GotText(r) /\ ObjectInProse(reply[r].text) =>
            LET p == JSONParse(JsonMatch(StripFences(reply[r].text)).text)
            IN  sent[r] = <<ExtractOk([k \in AllKeys |->
                                IF k \in DataKeys(rev)
                                THEN OrDefault(p.fields[k], Str(""))
                                ELSE Undef])>>

\* All that the handling of request r reads or writes: its input, the
\* locals of its handler, the upstream reply and what was sent.
Own(r) ==
    <<pc[r], route[r], body[r], prompt[r], calls[r], reply[r], cand[r], sent[r]>>

\* Two answered requests with the same route, the same input and the same
\* upstream reply have the same response.
SameInputSameResponse ==
    \A r, q \in Requests :
        /\ Answered(r) /\ Answered(q)
        /\ route[r] = route[q] /\ body[r] = body[q] /\ reply[r] = reply[q]
        => sent[r] = sent[q]

\* A step of the handling of one request leaves all of every other request
\* as it was.
OneRequestPerStep ==
    \E r \in Requests : \A q \in Requests \ {r} : Own(q)' = Own(q)

\* C19: with requests handled concurrently, under every interleaving of
\* their upstream calls, the response to a request is a function of its own
\* input and of the reply to its own call, and no step of one request reads
\* or writes what belongs to another.
C19_Independence == [][OneRequestPerStep]_vars /\ []SameInputSameResponse

\* Two requests to /api/appeal-check with the same input, answered from the
\* same upstream text.
C19_Witness ==
    /\ Appeal("r1") /\ Appeal("r2") /\ Answered("r1") /\ Answered("r2")
    /\ body["r1"] = body["r2"] /\ GotText("r1") /\ reply["r1"] = reply["r2"]
    /\ Resp("r1").status = 200

\* Where the handling of request r stands: the prompt is built before the
\* call is issued; while the call is pending nothing is settled, recovered
\* or sent; recovery and the response of a request that made the call come
\* after the call has settled.
InOrder(r) ==
    /\ calls[r] >= 1 => prompt[r].set
    /\ pc[r] = "awaiting" =>
          calls[r] = 1 /\ reply[r] = NoReply /\ ~cand[r].set /\ sent[r] = <<>>
    /\ cand[r].set => GotText(r)
    /\ calls[r] >= 1 /\ sent[r] # <<>> => Settled(r)

\* The steps of request r come one after the other: the prompt is built by
\* the step that issues the call, the call settles only while it is
\* pending, and the step in which it settles is the one that recovers and
\* responds.
StepInOrder(r) ==
    /\ prompt'[r] # prompt[r] => calls[r] = 0 /\ calls'[r] = 1 /\ sent'[r] = sent[r]
    /\ calls'[r] # calls[r] => pc[r] = "idle" /\ pc'[r] = "awaiting"
    /\ reply'[r] # reply[r] => pc[r] = "awaiting" /\ pc'[r] = "done"
    /\ cand'[r] # cand[r] => pc[r] = "awaiting" /\ reply'[r].kind = "text"
    /\ pc[r] = "awaiting" /\ sent'[r] # sent[r] => reply'[r] # NoReply

\* C20: for a request that passes the validation the steps come in the
\* order prompt built, call issued, call settled, recovery, response;
\* recovery never runs and no response is sent while the call is pending.
C20_StepOrder ==
    [](\A r \in Requests : InOrder(r)) /\ [][\A r \in Requests : StepInOrder(r)]_vars

\* One request answered from the recovered text of its call while the call
\* of the other is still pending.
C20_Witness ==
    /\ Appeal("r1") /\ prompt["r1"].set /\ calls["r1"] = 1 /\ GotText("r1")
    /\ cand["r1"].set /\ Answered("r1") /\ Resp("r1").status = 200
    /\ pc["r2"] = "awaiting" /\ sent["r2"] = <<>>

\* What request r has been sent so far: nothing before its handler has
\* finished, one response once it has, and one response as soon as its
\* validation has failed or its upstream call has settled.
OneResponse(r) ==
    /\ Len(sent[r]) <= 1
    /\ pc[r] = "done" <=> Len(sent[r]) = 1
    /\ Settled(r) => Len(sent[r]) = 1
    /\ route[r] # "none" /\ calls[r] = 0 => Len(sent[r]) = 1

\* A response that was sent is never followed by another one.
NeverASecond(r) == sent[r] # <<>> => sent'[r] = sent[r]

\* C21: on every path of /api/appeal-check and /api/extract-fine (failed
\* validation, rejected upstream call, failed recovery, fallback, success)
\* the handler sends one response and never a second one, and the response
\* is there once the validation has failed or the upstream call has
\* settled; a 400 is never followed by a 200 or a 500.
C21_OneResponse ==
    [](\A r \in Requests : OneResponse(r)) /\ [][\A r \in Requests : NeverASecond(r)]_vars

\* One request refused with a 400 before any upstream call, the other
\* answered 500 after its upstream call was rejected: one response each.
C21_Witness ==
    /\ Answered("r1") /\ Resp("r1").status = 400 /\ calls["r1"] = 0
    /\ Len(sent["r1"]) = 1
    /\ Answered("r2") /\ reply["r2"].kind = "error" /\ Resp("r2").status = 500
    /\ Len(sent["r2"]) = 1

====
